---- MODULE Spec2Model ----
(***************************************************************************)
(* The self-contained coordinator of redis-benchmarks-specification:       *)
(* main() of __self_contained_coordinator__/self_contained_coordinator.py  *)
(* as a state machine, one action per step of the coordinator loop, with   *)
(* the stream (consumer group), the container runtime and the file system  *)
(* as shared state.                                                        *)
(*                                                                         *)
(* Byte strings are sequences of chunks (<<"my/", "run_image", ":1">> is   *)
(* b"my/run_image:1"), so that the substring test of line 191 and the      *)
(* split of line 195 are computed.  Stream ids are 1, 2, ...; a cursor is  *)
(* <<>> (None), <<">">> or <<"id", n>>.  Unbound Python locals are <<>>.   *)
(*                                                                         *)
(* The container runtime is taken at its boundary: a launch either raises  *)
(* or returns a handle, an auto-removing container leaves the runtime      *)
(* when its process ends, and stop(handle) does not raise, also on a       *)
(* handle that is already gone.  Paths and handles are fresh: the least    *)
(* number that nothing on disk, in the runtime or in a list still holds.   *)
(***************************************************************************)
EXTENDS Integers, Sequences, FiniteSets, TLC

(* ------------------------------ bounds --------------------------------- *)

\* entries the upstream builder publishes in one behaviour
MaxEntries == 2

\* coordinator processes of the multi-process specification
NumProcs == 2

\* --cpu-count of the runs explored (args.cpu_count, never read after 165)
HostCpuCount == 2

\* entries of the configuration_parameters dict of one call of
\* generate_standalone_redis_server_args
MaxParams == 2

(* --------------------------- program constants ------------------------- *)

STREAM_GH_NEW_BUILD_RUNNERS_CG == <<"runners-cg:redis/redis/commits">>

\* the mode given to os.chmod: the decimal literal 755
ARTIFACT_MODE == 755

\* image="redis:6.2.4" of the client container
CLIENT_IMAGE == <<"redis:6.2.4">>

\* the attributes argparse defines on args (lines 63-88)
ArgsAttributes == {"cpu_count", "logname", "consumer_start_id", "setups_folder", "test_suites_folder"}

(* ------------------------------ helpers -------------------------------- *)

EmptyMap == [k \in {} |-> <<>>]

\* f without the key k
Without(f, k) == [x \in DOMAIN f \ {k} |-> f[x]]

None == <<>>

Unbound == <<>>

GT == <<">">>

IdCursor(n) == <<"id", n>>

\* needle in hay, for byte strings: a contiguous occurrence
BytesContains(needle, hay) ==
    \E i \in 0..(Len(hay) - Len(needle)) :
        \A j \in 1..Len(needle) : hay[i + j] = needle[j]

\* a name between two commas: one chunk, or "" when there is none
ChunkName(sub) == IF sub = <<>> THEN "" ELSE sub[1]

\* str.split(","): the names between the commas, in order
RECURSIVE SplitComma(_)
SplitComma(s) ==
    IF \A i \in 1..Len(s) : s[i] # ","
    THEN <<ChunkName(s)>>
    ELSE LET k == CHOOSE i \in 1..Len(s) :
                     s[i] = "," /\ \A j \in 1..(i - 1) : s[j] # ","
         IN  <<ChunkName(SubSeq(s, 1, k - 1))>>
                 \o SplitComma(SubSeq(s, k + 1, Len(s)))

\* bytes.decode() / "{}".format(name).encode(): the same characters
Decode(b) == b

\* float(db_cpu_limit) of a request num/den
Float(c) == [num |-> c.num, den |-> c.den]

\* int(): truncation instead of math.ceil
MathFloor(f) == f.num \div f.den

\* math.ceil of a positive or zero rational
MathCeil(f) == (f.num + f.den - 1) \div f.den

\* [str(x) for x in range(a, b)] joined with ",": the indices in order
RECURSIVE Range(_, _)
Range(a, b) == IF a >= b THEN <<>> ELSE <<a>> \o Range(a + 1, b)

SeqToSet(s) == {s[i] : i \in 1..Len(s)}

\* the consumer name of line 173: the worker index is the literal "1"
ConsumerName(p) == STREAM_GH_NEW_BUILD_RUNNERS_CG \o <<"-self-contained-proc#", "1">>

(* ------------------------- the environment ----------------------------- *)

\* get_topologies(...): topology name -> resources.requests.cpus
topologies_map ==
    [n \in {"oss-standalone", "oss-standalone-1.5", "oss-big"} |->
        CASE n = "oss-standalone"     -> [num |-> 1, den |-> 1]
          [] n = "oss-standalone-1.5" -> [num |-> 3, den |-> 2]
          [] n = "oss-big"            -> [num |-> 4, den |-> 1]]

\* the test-suites folder: per file, benchmark_config["redis-topologies"]
SuiteFolders ==
    { << <<"oss-standalone", "oss-standalone-1.5", "no-such-topology">>, <<"oss-big">> >>,
      << <<"no-such-topology", "oss-standalone">> >> }

\* the folder of the multi-process runs
SingleSuiteFolder == << <<"oss-standalone">> >>

Img(name) == <<name>>

Payload(name) == <<"ELF:", name>>

GitHash == "git_hash" :> <<"abc123">>

BuildImage == "build_image" :> Img("gcc:8.5")

ServerPayload == "redis-server" :> Payload("redis-server")

\* the entries the builder may publish (the binary field map of an entry)
EntryShapes ==
    { BuildImage @@ ServerPayload,
      GitHash @@ ServerPayload,
      GitHash @@ BuildImage @@ ServerPayload,
      GitHash @@ BuildImage @@ ServerPayload
          @@ ("run_image" :> Img("debian:buster")),
      GitHash @@ BuildImage @@ ServerPayload
          @@ ("run_image" :> <<"my/", "run_image", ":1">>),
      GitHash @@ BuildImage @@ ServerPayload
          @@ ("run_image" :> Img("debian:buster"))
          @@ ("build_artifacts" :> <<"redis-server", ",", "redis-cli">>),
      GitHash @@ BuildImage @@ ServerPayload
          @@ ("run_image" :> Img("debian:buster"))
          @@ ("build_artifacts" :> <<"redis-server", ",", "redis-cli">>)
          @@ ("redis-cli" :> Payload("redis-cli")) }

\* the entries of the multi-process runs
ValidEntryShapes ==
    { GitHash @@ BuildImage @@ ServerPayload
          @@ ("run_image" :> Img("debian:buster")) }

\* the entries a builder of either kind publishes
Published(kind) == IF kind = "valid" THEN ValidEntryShapes ELSE EntryShapes

(* ------------------------------- state --------------------------------- *)

VARIABLES
    \* the queue store
    stream,              \* the entries of STREAM_KEYNAME_NEW_BUILD_EVENTS, id = index
    group_created,       \* the consumer group exists
    last_delivered_id,   \* the group's last-delivered id
    pel,                 \* pending entries: <<consumer name, id>>
    producer,            \* what the builder publishes: "any" or "valid" entries
    \* the host
    docker,              \* live containers: [handle, kind, image, cpuset_cpus, owner]
    fs,                  \* temp directories on disk: path -> (file name -> [content, mode])
    files,               \* the test-suites folder
    \* per coordinator process
    pc,
    args,
    exit_status,         \* <<>> while alive, else <<status, exception, line>>
    previous_id,
    streamId,
    testDetails,
    build_image,
    run_image,
    build_artifacts,
    file_idx,            \* position of "for test_file in files"
    topo_idx,            \* position of "for topology_spec_name in ..."
    redis_containers,
    client_containers,
    current_cpu_pos,
    previous_cpu_pos,
    temporary_dir,
    db_cpuset_cpus,
    results_dict,
    \* what the log and the runtime saw of the current pass
    run_failed,          \* the pass logged "Failing test...."
    launched,            \* the launches of the current pass, in order
    pass_log,            \* <<process, stream id>> of every pass that was started
    passes_started,      \* <<file, topology>> positions of the passes started
                         \* for the entry in hand, in order
    probe_result,        \* what r.ping() did in the current pass
    stop_calls,          \* the handles container.stop() was called on, in order
    \* one call of generate_standalone_redis_server_args
    call_args,           \* binary, port, dbdir, configuration_parameters
    command              \* the list the call returned, Unbound before it

queueVars == <<stream, group_created, last_delivered_id, pel, producer>>

hostVars == <<docker, fs, files>>

entryVars == <<streamId, testDetails, build_image, run_image, build_artifacts>>

loopVars == <<file_idx, topo_idx, redis_containers, client_containers, stop_calls>>

passVars == <<current_cpu_pos, previous_cpu_pos, temporary_dir, db_cpuset_cpus,
              results_dict, run_failed, launched>>

logVars == <<pass_log, passes_started, probe_result>>

procVars == <<pc, args, exit_status, previous_id>>

callVars == <<call_args, command>>

vars == <<queueVars, hostVars, entryVars, loopVars, passVars, logVars, procVars,
         callVars>>

Procs == DOMAIN pc

StartIds == {GT, IdCursor(0)}

\* lines 254-261: the arguments main() calls the function with, for a test
\* suite without dbconfig
CallSite ==
    [binary |-> <<"/mnt/redis/", "redis-server">>, port |-> 6379,
     dbdir |-> <<"/mnt/redis/">>, configuration_parameters |-> None]

\* a dict, as its items in iteration (insertion) order
Dict(items) == [items |-> items]

ParameterNames == {"port", "protected-mode", "dir", "save", "appendonly"}

ParameterValues == {<<"yes">>, <<"''">>}

\* the dicts of at most n parameters: the keys of a dict are distinct
Dicts(n) ==
    LET Lists == UNION {[1..k -> ParameterNames \X ParameterValues] : k \in 0..n}
    IN  {Dict(l) : l \in {x \in Lists :
                              \A i \in 1..Len(x) : \A j \in 1..Len(x) :
                                  x[i][1] = x[j][1] => i = j}}

\* the arguments of the calls explored
CallInputs ==
    [binary : {<<"/mnt/redis/", "redis-server">>},
     port : {6379, 6380, 7},
     dbdir : {<<"/mnt/redis/">>, <<"/data/">>},
     configuration_parameters : {None} \cup Dicts(MaxParams)]

InitProcs(P, starts) ==
    /\ pc = [p \in P |-> "start"]
    /\ args \in [P -> [cpu_count : {HostCpuCount}, consumer_start_id : starts]]
    /\ exit_status = [p \in P |-> <<>>]
    /\ previous_id = [p \in P |-> None]
    /\ streamId = [p \in P |-> Unbound]
    /\ testDetails = [p \in P |-> Unbound]
    /\ build_image = [p \in P |-> Unbound]
    /\ run_image = [p \in P |-> Unbound]
    /\ build_artifacts = [p \in P |-> Unbound]
    /\ file_idx = [p \in P |-> 0]
    /\ topo_idx = [p \in P |-> 0]
    /\ redis_containers = [p \in P |-> Unbound]
    /\ client_containers = [p \in P |-> Unbound]
    /\ current_cpu_pos = [p \in P |-> Unbound]
    /\ previous_cpu_pos = [p \in P |-> Unbound]
    /\ temporary_dir = [p \in P |-> Unbound]
    /\ db_cpuset_cpus = [p \in P |-> Unbound]
    /\ results_dict = [p \in P |-> Unbound]
    /\ run_failed = [p \in P |-> FALSE]
    /\ launched = [p \in P |-> <<>>]
    /\ stop_calls = [p \in P |-> <<>>]
    /\ passes_started = [p \in P |-> <<>>]
    /\ probe_result = [p \in P |-> "none"]

InitHost ==
    /\ stream = <<>>
    /\ group_created = FALSE
    /\ last_delivered_id = 0
    /\ pel = {}
    /\ pass_log = {}
    /\ command = Unbound
    /\ docker = {}
    /\ fs = EmptyMap

\* one coordinator, any test-suites folder, any entries
Init ==
    /\ InitHost
    /\ InitProcs({1}, StartIds)
    /\ files \in SuiteFolders
    /\ producer = "any"
    /\ call_args = CallSite

\* NumProcs coordinators, started with the default arguments, on one stream
\* and one consumer group
InitMulti ==
    /\ InitHost
    /\ InitProcs(1..NumProcs, {GT})
    /\ files = SingleSuiteFolder
    /\ producer = "valid"
    /\ call_args = CallSite

\* one call of generate_standalone_redis_server_args, on any arguments
InitArgs ==
    /\ InitHost
    /\ InitProcs({1}, {GT})
    /\ files = SingleSuiteFolder
    /\ producer = "valid"
    /\ call_args \in CallInputs

(* ------------------------- the queue store ----------------------------- *)

\* the builder publishes an entry
Publish ==
    /\ Len(stream) < MaxEntries
    /\ \E e \in Published(producer) : stream' = Append(stream, e)
    /\ UNCHANGED <<group_created, last_delivered_id, pel, producer>>
    /\ UNCHANGED <<hostVars, entryVars, loopVars, passVars, procVars, logVars>>
    /\ UNCHANGED callVars

\* XREADGROUP GROUP g consumer COUNT 1 STREAMS key cursor: the ids it returns.
\* ">" gives the next entry never delivered to the group; an id gives the
\* entries pending for this consumer name that come after it.
XReadGroupIds(consumer, cursor) ==
    IF cursor = GT
    THEN {id \in 1..Len(stream) : id = last_delivered_id + 1}
    ELSE LET pending == {id \in 1..Len(stream) :
                            <<consumer, id>> \in pel /\ id > cursor[2]}
         IN  {id \in pending : \A other \in pending : id <= other}

(* --------------------------- the coordinator --------------------------- *)

\* an uncaught exception ends the process
Crash(p, exception, line) ==
    /\ pc' = [pc EXCEPT ![p] = "crashed"]
    /\ exit_status' = [exit_status EXCEPT ![p] = <<1, exception, line>>]

\* lines 126-165: connect, ping, create the group if it is not there
Startup(p) ==
    /\ pc[p] = "start"
    /\ \E connected \in BOOLEAN :
        IF connected
        THEN /\ group_created' = TRUE
             /\ last_delivered_id' =
                    IF group_created THEN last_delivered_id ELSE Len(stream)
             /\ pc' = [pc EXCEPT ![p] = "read"]
             /\ UNCHANGED exit_status
        ELSE /\ pc' = [pc EXCEPT ![p] = "exited"]
             /\ exit_status' = [exit_status EXCEPT ![p] = <<1, "ConnectionError", 142>>]
             /\ UNCHANGED <<group_created, last_delivered_id>>
    /\ UNCHANGED <<stream, pel, producer, args, previous_id>>
    /\ UNCHANGED <<hostVars, entryVars, loopVars, passVars, logVars>>
    /\ UNCHANGED callVars

\* the cursor the read of line 171 is issued with (lines 169-170)
ReadCursor(p) ==
    IF previous_id[p] = None THEN args[p].consumer_start_id ELSE previous_id[p]

\* a delivery that leaves the cursor as the read was issued with
DeliveredCursorKept(p, id) == ReadCursor(p)

\* line 182: previous_id = streamId.decode()
DeliveredCursor(p, id) == IdCursor(Decode(id))

\* lines 167-183: the blocking read and what it does with the reply
BlockingRead(p) ==
    /\ pc[p] = "read"
    /\ LET cursor == ReadCursor(p)
           ids == XReadGroupIds(ConsumerName(p), cursor)
       IN  \* block=0: a read for new entries waits until there is one
           /\ cursor = GT => ids # {}
           /\ IF ids = {}
              THEN /\ previous_id' = [previous_id EXCEPT ![p] = GT]
                   /\ UNCHANGED <<pc, streamId, testDetails, last_delivered_id, pel>>
              ELSE LET id == CHOOSE i \in ids : TRUE
                   IN  /\ last_delivered_id' =
                              IF cursor = GT THEN id ELSE last_delivered_id
                       /\ pel' = pel \cup {<<ConsumerName(p), id>>}
                       /\ streamId' = [streamId EXCEPT ![p] = id]
                       /\ testDetails' = [testDetails EXCEPT ![p] = stream[id]]
                       /\ previous_id' = [previous_id EXCEPT ![p] = DeliveredCursor(p, id)]
                       /\ pc' = [pc EXCEPT ![p] = "decode"]
    /\ passes_started' =
           IF pc'[p] = "decode" THEN [passes_started EXCEPT ![p] = <<>>]
           ELSE passes_started
    /\ UNCHANGED <<stream, group_created, producer, args, exit_status>>
    /\ UNCHANGED <<build_image, run_image, build_artifacts>>
    /\ UNCHANGED <<hostVars, loopVars, passVars, pass_log, probe_result>>
    /\ UNCHANGED callVars

\* the test of line 185 taken as passed for every entry
HasCommitAlways(d) == TRUE

\* line 185: b"git_hash" in testDetails
HasCommit(d) == "git_hash" \in DOMAIN d

\* lines 185-204 and 422-424: the fields of the entry
DecodeEntry(p) ==
    /\ pc[p] = "decode"
    /\ LET d == testDetails[p]
           has(f) == f \in DOMAIN d
       IN  IF ~HasCommit(d)
           THEN \* 422-424: log the error and go back to the read
                /\ pc' = [pc EXCEPT ![p] = "read"]
                /\ UNCHANGED <<exit_status, build_image, run_image, build_artifacts, file_idx>>
           ELSE IF ~has("build_image")
           THEN /\ Crash(p, "KeyError", 189)
                /\ UNCHANGED <<build_image, run_image, build_artifacts, file_idx>>
           ELSE IF ~has("run_image")
           THEN /\ Crash(p, "KeyError", 191)
                /\ build_image' = [build_image EXCEPT ![p] = Decode(d["build_image"])]
                /\ run_image' = [run_image EXCEPT ![p] = Decode(d["build_image"])]
                /\ UNCHANGED <<build_artifacts, file_idx>>
           ELSE /\ build_image' = [build_image EXCEPT ![p] = Decode(d["build_image"])]
                /\ run_image' = [run_image EXCEPT ![p] =
                       IF BytesContains(<<"run_image">>, d["run_image"])
                       THEN Decode(d["run_image"])
                       ELSE Decode(d["build_image"])]
                /\ build_artifacts' = [build_artifacts EXCEPT ![p] =
                       SplitComma(IF has("build_artifacts")
                                  THEN Decode(d["build_artifacts"])
                                  ELSE <<"redis-server">>)]
                /\ file_idx' = [file_idx EXCEPT ![p] = 1]
                /\ pc' = [pc EXCEPT ![p] = "file"]
                /\ UNCHANGED exit_status
    /\ UNCHANGED <<streamId, testDetails, args, previous_id>>
    /\ UNCHANGED <<topo_idx, redis_containers, client_containers, stop_calls>>
    /\ UNCHANGED <<queueVars, hostVars, passVars, logVars>>
    /\ UNCHANGED callVars

\* lines 205-217: the next test-suite file, or back to the read
NextFile(p) ==
    /\ pc[p] = "file"
    /\ IF file_idx[p] > Len(files)
       THEN /\ pc' = [pc EXCEPT ![p] = "read"]
            /\ UNCHANGED <<redis_containers, client_containers, stop_calls, topo_idx, launched>>
       ELSE /\ redis_containers' = [redis_containers EXCEPT ![p] = <<>>]
            /\ client_containers' = [client_containers EXCEPT ![p] = <<>>]
            /\ stop_calls' = [stop_calls EXCEPT ![p] = <<>>]
            /\ launched' = [launched EXCEPT ![p] = <<>>]
            /\ topo_idx' = [topo_idx EXCEPT ![p] = 1]
            /\ pc' = [pc EXCEPT ![p] = "topo"]
    /\ UNCHANGED <<file_idx, args, exit_status, previous_id>>
    /\ UNCHANGED <<current_cpu_pos, previous_cpu_pos, temporary_dir, db_cpuset_cpus,
                   results_dict, run_failed>>
    /\ UNCHANGED <<queueVars, hostVars, entryVars, logVars>>
    /\ UNCHANGED callVars

(* ------------------------ one orchestration pass ----------------------- *)

\* the least n >= 1 outside a finite set of numbers
LeastUnused(used) == CHOOSE n \in 1..(Cardinality(used) + 1) :
                         n \notin used /\ \A m \in 1..(n - 1) : m \in used

\* tempfile.mkdtemp(dir=home): a path that is on disk nowhere and that no
\* process still holds
MkDTemp ==
    <<LeastUnused({d[1] : d \in DOMAIN fs}
                  \cup {temporary_dir[q][1] : q \in {r \in Procs : temporary_dir[r] # Unbound}})>>

\* the handle of a new container: one that no list or log still holds
NewHandle ==
    LeastUnused({c.handle : c \in docker}
                \cup UNION {SeqToSet(redis_containers[q]) : q \in Procs}
                \cup UNION {SeqToSet(stop_calls[q]) : q \in Procs}
                \cup UNION {{c.handle : c \in SeqToSet(launched[q])} : q \in Procs})

\* an exception inside the try of line 219: the except of lines 404-412
\* logs "Failing test...." and control falls to the tear-down
Raise(p) ==
    /\ pc' = [pc EXCEPT ![p] = "teardown"]
    /\ run_failed' = [run_failed EXCEPT ![p] = TRUE]

\* the position carried from the previous pass of the same file
StartPositionCarried(p) == IF topo_idx[p] = 1 THEN 0 ELSE current_cpu_pos[p]

\* line 220: current_cpu_pos = 0, inside the loop body: every pass starts
\* its allocation at index 0
StartPosition(p) == 0

\* lines 218-233: the next topology of the file; the CPU positions, the
\* topology's request and the temp directory of the pass
BeginPass(p) ==
    /\ pc[p] = "topo"
    /\ LET names == files[file_idx[p]]
       IN  IF topo_idx[p] > Len(names)
           THEN /\ file_idx' = [file_idx EXCEPT ![p] = @ + 1]
                /\ pc' = [pc EXCEPT ![p] = "file"]
                /\ UNCHANGED <<passVars, fs, logVars>>
           ELSE LET topology_spec_name == names[topo_idx[p]]
                IN  /\ launched' = [launched EXCEPT ![p] = <<>>]
                    /\ pass_log' = pass_log \cup {<<p, streamId[p]>>}
                    /\ passes_started' =
                           [passes_started EXCEPT
                                ![p] = Append(@, <<file_idx[p], topo_idx[p]>>)]
                    /\ probe_result' = [probe_result EXCEPT ![p] = "none"]
                    /\ previous_cpu_pos' = [previous_cpu_pos EXCEPT ![p] = StartPosition(p)]
                    /\ UNCHANGED <<file_idx, db_cpuset_cpus, results_dict>>
                    /\ IF topology_spec_name \notin DOMAIN topologies_map
                       THEN \* KeyError at line 222
                            /\ Raise(p)
                            /\ current_cpu_pos' = [current_cpu_pos EXCEPT ![p] = StartPosition(p)]
                            /\ UNCHANGED <<temporary_dir, fs>>
                       ELSE LET db_cpu_limit == topologies_map[topology_spec_name]
                                ceil_db_cpu_limit == MathCeil(Float(db_cpu_limit))
                            IN  /\ current_cpu_pos' =
                                       [current_cpu_pos EXCEPT ![p] =
                                            StartPosition(p) + ceil_db_cpu_limit]
                                /\ temporary_dir' = [temporary_dir EXCEPT ![p] = MkDTemp]
                                /\ fs' = (MkDTemp :> EmptyMap) @@ fs
                                /\ run_failed' = [run_failed EXCEPT ![p] = FALSE]
                                /\ pc' = [pc EXCEPT ![p] = "materialize"]
    /\ UNCHANGED <<topo_idx, redis_containers, client_containers, stop_calls>>
    /\ UNCHANGED <<docker, files, args, exit_status, previous_id>>
    /\ UNCHANGED <<queueVars, entryVars>>
    /\ UNCHANGED callVars

\* the artifacts of lines 236-253 that are written: those before the first
\* name the entry has no payload for
Restorable(p) ==
    LET names == build_artifacts[p]
        missing == {i \in 1..Len(names) : names[i] \notin DOMAIN testDetails[p]}
    IN  IF missing = {} THEN names
        ELSE SubSeq(names, 1, (CHOOSE i \in missing : \A j \in missing : i <= j) - 1)

\* a lookup of the payload that never fails
MissingArtifactIgnored(p) == FALSE

\* line 237: testDetails[bytes(build_artifact)] raises KeyError for a name
\* the entry has no payload field for
MissingArtifact(p) == Len(Restorable(p)) < Len(build_artifacts[p])

\* an artifact file left with the mode open() gave it (rw-r--r--)
ArtifactFileNoChmod(p, build_artifact) ==
    [content |-> testDetails[p][build_artifact], mode |-> 6 * 64 + 4 * 8 + 4]

\* lines 237-245: the file written for one artifact and the mode set on it
ArtifactFile(p, build_artifact) ==
    [content |-> testDetails[p][build_artifact], mode |-> ARTIFACT_MODE]

\* lines 234-263: write the artifacts, build the command and the CPU set
Materialize(p) ==
    /\ pc[p] = "materialize"
    /\ LET dir == temporary_dir[p]
           written == SeqToSet(Restorable(p))
       IN  fs' = [fs EXCEPT ![dir] =
                     [n \in DOMAIN @ \cup written |->
                         IF n \in written
                         THEN ArtifactFile(p, n)
                         ELSE @[n]]]
    /\ IF MissingArtifact(p)
       THEN \* KeyError at line 237
            /\ Raise(p)
            /\ UNCHANGED db_cpuset_cpus
       ELSE /\ db_cpuset_cpus' = [db_cpuset_cpus EXCEPT ![p] =
                   Range(previous_cpu_pos[p], current_cpu_pos[p])]
            /\ pc' = [pc EXCEPT ![p] = "launch_db"]
            /\ UNCHANGED run_failed
    /\ UNCHANGED <<current_cpu_pos, previous_cpu_pos, temporary_dir, results_dict, launched>>
    /\ UNCHANGED <<docker, files, args, exit_status, previous_id>>
    /\ UNCHANGED <<queueVars, entryVars, loopVars, logVars>>
    /\ UNCHANGED callVars

\* docker_client.containers.run(...): the container the runtime starts
Container(p, handle, kind, image, cpuset_cpus) ==
    [handle |-> handle, kind |-> kind, image |-> image,
     cpuset_cpus |-> cpuset_cpus, owner |-> p]

\* lines 264-321: launch the database container (detached) on the run image
LaunchDb(p) ==
    /\ pc[p] = "launch_db"
    /\ \E accepted \in BOOLEAN :
        IF accepted
        THEN LET container == Container(p, NewHandle, "db", run_image[p], db_cpuset_cpus[p])
             IN  /\ docker' = docker \cup {container}
                 /\ redis_containers' =
                        [redis_containers EXCEPT ![p] = Append(@, container.handle)]
                 /\ launched' = [launched EXCEPT ![p] = Append(@, container)]
                 /\ pc' = [pc EXCEPT ![p] = "probe"]
                 /\ UNCHANGED run_failed
        ELSE /\ Raise(p)
             /\ UNCHANGED <<docker, redis_containers, launched>>
    /\ UNCHANGED <<current_cpu_pos, previous_cpu_pos, temporary_dir, db_cpuset_cpus, results_dict>>
    /\ UNCHANGED <<file_idx, topo_idx, client_containers, stop_calls>>
    /\ UNCHANGED <<fs, files, args, exit_status, previous_id>>
    /\ UNCHANGED <<queueVars, entryVars, logVars>>
    /\ UNCHANGED callVars

\* a probe whose failure is not raised: the pass goes on to the client
ProbeIgnored(p) ==
    /\ pc[p] = "probe"
    /\ \E pong \in BOOLEAN :
        /\ probe_result' = [probe_result EXCEPT ![p] = IF pong THEN "pong" ELSE "failed"]
        /\ pc' = [pc EXCEPT ![p] = "run_client"]
        /\ UNCHANGED run_failed
    /\ UNCHANGED <<current_cpu_pos, previous_cpu_pos, temporary_dir, db_cpuset_cpus,
                   results_dict, launched>>
    /\ UNCHANGED <<args, exit_status, previous_id, pass_log, passes_started>>
    /\ UNCHANGED <<queueVars, hostVars, entryVars, loopVars>>
    /\ UNCHANGED callVars

\* lines 322-323: the liveness probe of the database; r.ping() raises when
\* the database does not answer
Probe(p) ==
    /\ pc[p] = "probe"
    /\ \E pong \in BOOLEAN :
        /\ probe_result' = [probe_result EXCEPT ![p] = IF pong THEN "pong" ELSE "failed"]
        /\ IF pong
           THEN /\ pc' = [pc EXCEPT ![p] = "run_client"]
                /\ UNCHANGED run_failed
           ELSE Raise(p)
    /\ UNCHANGED <<current_cpu_pos, previous_cpu_pos, temporary_dir, db_cpuset_cpus,
                   results_dict, launched>>
    /\ UNCHANGED <<args, exit_status, previous_id, pass_log, passes_started>>
    /\ UNCHANGED <<queueVars, hostVars, entryVars, loopVars>>
    /\ UNCHANGED callVars

\* lines 326-342: the client container starts in the foreground; the call
\* gives no cpuset_cpus
LaunchClient(p) ==
    /\ pc[p] = "run_client"
    /\ \E accepted \in BOOLEAN :
        IF accepted
        THEN LET container == Container(p, NewHandle, "client", CLIENT_IMAGE, <<>>)
             IN  /\ docker' = docker \cup {container}
                 /\ launched' = [launched EXCEPT ![p] = Append(@, container)]
                 /\ pc' = [pc EXCEPT ![p] = "client_wait"]
                 /\ UNCHANGED run_failed
        ELSE /\ Raise(p)
             /\ UNCHANGED <<docker, launched>>
    /\ UNCHANGED <<current_cpu_pos, previous_cpu_pos, temporary_dir, db_cpuset_cpus, results_dict>>
    /\ UNCHANGED <<fs, files, args, exit_status, previous_id>>
    /\ UNCHANGED <<queueVars, entryVars, loopVars, logVars>>
    /\ UNCHANGED callVars

\* the containers of the runtime without those of process p of one kind
WithoutKind(p, kind) == {c \in docker : ~(c.owner = p /\ c.kind = kind)}

\* lines 328-349: the client process ends (its container removes itself) and
\* the call returns its output, or raises on a non-zero exit
ClientExit(p) ==
    /\ pc[p] = "client_wait"
    /\ docker' = WithoutKind(p, "client")
    /\ \E completed \in BOOLEAN :
        IF completed
        THEN /\ pc' = [pc EXCEPT ![p] = "reconcile"]
             /\ UNCHANGED run_failed
        ELSE Raise(p)
    /\ UNCHANGED <<current_cpu_pos, previous_cpu_pos, temporary_dir, db_cpuset_cpus,
                   results_dict, launched>>
    /\ UNCHANGED <<fs, files, args, exit_status, previous_id>>
    /\ UNCHANGED <<queueVars, entryVars, loopVars, logVars>>
    /\ UNCHANGED callVars

\* lines 350-364: shut the database down (its container removes itself),
\* post-process and parse the result JSON
Reconcile(p) ==
    /\ pc[p] = "reconcile"
    /\ docker' = WithoutKind(p, "db")
    /\ \E well_formed \in BOOLEAN :
        IF well_formed
        THEN /\ results_dict' = [results_dict EXCEPT ![p] = <<"results", streamId[p]>>]
             /\ pc' = [pc EXCEPT ![p] = "push"]
             /\ UNCHANGED run_failed
        ELSE /\ Raise(p)
             /\ UNCHANGED results_dict
    /\ UNCHANGED <<current_cpu_pos, previous_cpu_pos, temporary_dir, db_cpuset_cpus, launched>>
    /\ UNCHANGED <<fs, files, args, exit_status, previous_id>>
    /\ UNCHANGED <<queueVars, entryVars, loopVars, logVars>>
    /\ UNCHANGED callVars

\* lines 366-402: args.push_results_redistimeseries is read; argparse
\* defines no such attribute
PushResults(p) ==
    /\ pc[p] = "push"
    /\ IF "push_results_redistimeseries" \in ArgsAttributes
       THEN /\ pc' = [pc EXCEPT ![p] = "teardown"]
            /\ UNCHANGED run_failed
       ELSE \* AttributeError at line 366
            Raise(p)
    /\ UNCHANGED <<current_cpu_pos, previous_cpu_pos, temporary_dir, db_cpuset_cpus,
                   results_dict, launched>>
    /\ UNCHANGED <<args, exit_status, previous_id>>
    /\ UNCHANGED <<queueVars, hostVars, entryVars, loopVars, logVars>>
    /\ UNCHANGED callVars

\* a tear-down that stops the entries of the client list only
StopListClientsOnly(p) == SelectSeq(client_containers[p], LAMBDA c : c \in Nat)

\* lines 415-419: the handles container.stop() is called on, in order:
\* the database list, then the entries of the client list that are not bytes
StopList(p) ==
    redis_containers[p] \o SelectSeq(client_containers[p], LAMBDA c : c \in Nat)

\* container.stop() that ends nothing
StopSkipped(runtime, handles) == runtime

\* container.stop() on each handle: a container that is still there ends and
\* removes itself (auto_remove=True); one that is gone stays gone
Stop(runtime, handles) == {c \in runtime : c.handle \notin SeqToSet(handles)}

\* shutil.rmtree that leaves the tree on disk
RmTreeKept(disk, path) == disk

\* shutil.rmtree(path, ignore_errors=True)
RmTree(disk, path) == Without(disk, path)

\* lines 413-420: stop the containers of the lists, remove the temp directory
TearDown(p) ==
    /\ pc[p] = "teardown"
    /\ docker' = Stop(docker, StopList(p))
    /\ stop_calls' = [stop_calls EXCEPT ![p] =
           @ \o StopList(p)]
    /\ IF temporary_dir[p] = Unbound
       THEN \* NameError at line 420, outside the try
            /\ Crash(p, "NameError", 420)
            /\ UNCHANGED <<fs, topo_idx>>
       ELSE /\ fs' = RmTree(fs, temporary_dir[p])
            /\ topo_idx' = [topo_idx EXCEPT ![p] = @ + 1]
            /\ pc' = [pc EXCEPT ![p] = "topo"]
            /\ UNCHANGED exit_status
    /\ UNCHANGED <<file_idx, redis_containers, client_containers>>
    /\ UNCHANGED <<files, args, previous_id>>
    /\ UNCHANGED <<queueVars, entryVars, passVars, logVars>>
    /\ UNCHANGED callVars

(* ------------------ generate_standalone_redis_server_args -------------- *)

DIGITS == <<"0", "1", "2", "3", "4", "5", "6", "7", "8", "9">>

\* "{}".format(port): the decimal digits of a natural number
RECURSIVE Str(_)
Str(n) ==
    IF n < 10 THEN <<DIGITS[n + 1]>>
    ELSE Str(n \div 10) \o <<DIGITS[(n % 10) + 1]>>

\* a list of fixed names that leaves "dir" out
added_params_without_dir == <<"port", "protected-mode">>

\* line 430
added_params == <<"port", "protected-mode", "dir">>

\* lines 441-448: the loop over configuration_parameters.items()
RECURSIVE ExtendWithParameters(_, _)
ExtendWithParameters(cmd, items) ==
    IF items = <<>> THEN cmd
    ELSE LET parameter == Head(items)[1]
             parameter_value == Head(items)[2]
         IN  ExtendWithParameters(
                 IF parameter \notin SeqToSet(added_params)
                 THEN cmd \o << <<"--", parameter>>, parameter_value >>
                 ELSE cmd,
                 Tail(items))

\* lines 427-450
generate_standalone_redis_server_args(binary, port, dbdir, configuration_parameters) ==
    LET cmd == << binary,
                  <<"--", "protected-mode">>, <<"no">>,
                  <<"--", "port">>, Str(port),
                  <<"--", "dir">>, dbdir >>
    IN  IF configuration_parameters # None
        THEN ExtendWithParameters(cmd, configuration_parameters.items)
        ELSE cmd

\* the call and its return value
GenerateArgs ==
    /\ command = Unbound
    /\ command' = generate_standalone_redis_server_args(
                      call_args.binary, call_args.port, call_args.dbdir,
                      call_args.configuration_parameters)
    /\ UNCHANGED <<queueVars, hostVars, entryVars, loopVars, passVars, logVars,
                   procVars, call_args>>

(* --------------------------- specifications ---------------------------- *)

Next ==
    \/ Publish
    \/ \E p \in Procs : Startup(p)
    \/ \E p \in Procs : BlockingRead(p)
    \/ \E p \in Procs : DecodeEntry(p)
    \/ \E p \in Procs : NextFile(p)
    \/ \E p \in Procs : BeginPass(p)
    \/ \E p \in Procs : Materialize(p)
    \/ \E p \in Procs : LaunchDb(p)
    \/ \E p \in Procs : Probe(p)
    \/ \E p \in Procs : LaunchClient(p)
    \/ \E p \in Procs : ClientExit(p)
    \/ \E p \in Procs : Reconcile(p)
    \/ \E p \in Procs : PushResults(p)
    \/ \E p \in Procs : TearDown(p)

Spec == Init /\ [][Next]_vars

SpecMulti == InitMulti /\ [][Next]_vars

NextArgs == GenerateArgs

SpecArgs == InitArgs /\ [][NextArgs]_vars

(* ------------------------------ claims --------------------------------- *)

\* the steps between the creation of the temp directory and the tear-down
PassSteps == {"materialize", "launch_db", "probe", "run_client", "client_wait",
              "reconcile", "push", "teardown"}

\* the steps at which the CPU set of the pass has been computed
AllocatedSteps == {"launch_db", "probe", "run_client", "client_wait", "reconcile", "push"}

\* no pass is in progress in process p and the process is alive
BetweenPasses(p) == pc[p] \in {"read", "decode", "file", "topo"}

\* the entry has the two required fields
Valid(d) == d # Unbound /\ "git_hash" \in DOMAIN d /\ "build_image" \in DOMAIN d

\* C1: whichever step of a pass raised (or none), once the pass is over the
\* temp directory it created is no longer on disk.
C1_TempDirRemoved ==
    \A p \in Procs :
        pc[p] \notin PassSteps =>
            (temporary_dir[p] = Unbound \/ temporary_dir[p] \notin DOMAIN fs)

\* a pass that created its directory, launched a container and then raised is over
C1_Witness ==
    /\ pc[1] = "topo"
    /\ run_failed[1]
    /\ launched[1] # <<>>
    /\ temporary_dir[1] # Unbound
    /\ temporary_dir[1] \notin DOMAIN fs

\* C2 (as claimed): after the connection succeeded nothing ends the
\* coordinator; a process ends only on the failed initial connection.
C2_OnlyStartupExits ==
    \A p \in Procs :
        exit_status[p] # <<>> => exit_status[p] = <<1, "ConnectionError", 142>>

\* the handles of the containers of one kind that the current pass launched
LaunchedHandles(p, kind) ==
    {launched[p][i].handle : i \in {j \in 1..Len(launched[p]) : launched[p][j].kind = kind}}

AllLaunchedHandles(p) == {launched[p][i].handle : i \in 1..Len(launched[p])}

\* C3 (as claimed): after a pass every container it launched has been asked to
\* stop, and none of them is running.
C3_EveryLaunchedStopped ==
    \A p \in Procs :
        BetweenPasses(p) =>
            /\ AllLaunchedHandles(p) \subseteq SeqToSet(stop_calls[p])
            /\ \A c \in docker : c.handle \notin AllLaunchedHandles(p)

\* C3 (amended): after a pass every database container it launched has been
\* asked to stop and no container it launched is running; the client container,
\* run in the foreground, is never asked to stop.
C3_DbStoppedNoneRunning ==
    \A p \in Procs :
        BetweenPasses(p) =>
            /\ LaunchedHandles(p, "db") \subseteq SeqToSet(stop_calls[p])
            /\ LaunchedHandles(p, "client") \cap SeqToSet(stop_calls[p]) = {}
            /\ \A c \in docker : c.handle \notin AllLaunchedHandles(p)

\* a pass that launched both containers and then failed is over
C3_Witness ==
    /\ pc[1] = "topo"
    /\ run_failed[1]
    /\ LaunchedHandles(1, "db") # {}
    /\ LaunchedHandles(1, "client") # {}
    /\ results_dict[1] = Unbound

\* C4 (as claimed): no entry has passes run for it by more than one process.
C4_NoDuplicateWork ==
    \A a \in pass_log : \A b \in pass_log : a[2] = b[2] => a[1] = b[1]

\* C5: an entry without git_hash makes the coordinator go back to the read
\* with no container launched and nothing written.
C5_NoCommitNoSideEffects ==
    [][\A p \in Procs :
          (pc[p] = "decode" /\ pc'[p] # "decode" /\ "git_hash" \notin DOMAIN testDetails[p])
              => (pc'[p] = "read" /\ docker' = docker /\ fs' = fs
                    /\ launched' = launched /\ pass_log' = pass_log)]_vars

\* the entry without git_hash was decoded and the coordinator is at the read
C5_Witness ==
    /\ pc[1] = "read"
    /\ testDetails[1] # Unbound
    /\ "git_hash" \notin DOMAIN testDetails[1]
    /\ previous_id[1] = IdCursor(streamId[1])

\* C6 (as claimed): an entry with git_hash and without build_image is
\* skipped: the coordinator goes back to the read.
C6_NoBuildImageSkipped ==
    [][\A p \in Procs :
          (/\ pc[p] = "decode" /\ pc'[p] # "decode"
           /\ "git_hash" \in DOMAIN testDetails[p]
           /\ "build_image" \notin DOMAIN testDetails[p])
              => pc'[p] = "read"]_vars

\* the run image the entry asks for
ExpectedRunImage(d) ==
    IF "run_image" \in DOMAIN d THEN d["run_image"] ELSE d["build_image"]

\* C7 (as claimed): a valid entry is processed, with its run_image field as
\* the run image when it has one and its build image otherwise.
C7_RunImageDefaultsToBuildImage ==
    \A p \in Procs :
        (Valid(testDetails[p]) /\ pc[p] # "decode") =>
            /\ exit_status[p] # <<1, "KeyError", 191>>
            /\ pc[p] \in PassSteps => run_image[p] = ExpectedRunImage(testDetails[p])
            /\ \A c \in docker : (c.owner = p /\ c.kind = "db") =>
                   c.image = ExpectedRunImage(testDetails[p])

\* C8 (as claimed): in a topology loop the slice of a pass starts where the
\* slice of the pass before it ended.
C8_SlicesChain ==
    [][\A p \in Procs :
          (/\ pc[p] = "topo" /\ pc'[p] = "materialize"
           /\ topo_idx[p] > 1 /\ current_cpu_pos[p] > 0)
              => previous_cpu_pos'[p] = current_cpu_pos[p]]_vars

\* C8 (amended): the slice of every pass starts at index 0, whatever the
\* pass before it was given.
C8_SliceStartsAtZero ==
    \A p \in Procs :
        pc[p] \in AllocatedSteps =>
            /\ previous_cpu_pos[p] = 0
            /\ db_cpuset_cpus[p] # <<>>
            /\ db_cpuset_cpus[p][1] = 0

\* the second pass of a file, after a pass that was given [0,1)
C8_Witness ==
    /\ pc[1] = "launch_db"
    /\ topo_idx[1] = 2
    /\ files[file_idx[1]][1] = "oss-standalone"
    /\ db_cpuset_cpus[1] = <<0, 1>>

\* the request of the topology of the current pass
RequestedCpus(p) == topologies_map[files[file_idx[p]][topo_idx[p]]]

EffectiveCpus(c) ==
    IF c.cpuset_cpus = <<>> THEN 0..(args[c.owner].cpu_count - 1)
    ELSE SeqToSet(c.cpuset_cpus)

\* C10 (as claimed): a database container and a client container that run at the
\* same time each have a CPU set, and the two sets are disjoint.
C10_DisjointCpuSets ==
    \A d \in docker : \A c \in docker :
        (d.kind = "db" /\ c.kind = "client") =>
            /\ d.cpuset_cpus # <<>>
            /\ c.cpuset_cpus # <<>>
            /\ EffectiveCpus(d) \cap EffectiveCpus(c) = {}

\* the (file, topology) positions of the test-suites folder, in enumeration
\* order: files in list order, topologies in each file's order
RECURSIVE EnumeratedPairs(_)
EnumeratedPairs(n) ==
    IF n = 0 THEN <<>>
    ELSE EnumeratedPairs(n - 1) \o [t \in 1..Len(files[n]) |-> <<n, t>>]

\* C11 (as claimed): for a valid delivered entry the passes started are, in
\* order, those of the enumerated (file, topology) pairs, one each, and once
\* the entry is done with, a pass was started for every pair, whichever
\* passes failed.
C11_OnePassPerPair ==
    \A p \in Procs :
        Valid(testDetails[p]) =>
            LET all == EnumeratedPairs(Len(files))
                started == passes_started[p]
            IN  /\ Len(started) <= Len(all)
                /\ started = SubSeq(all, 1, Len(started))
                /\ pc[p] \in {"read", "crashed"} => started = all

\* C12 (as claimed): a pass whose artifacts were all present, whose database
\* answered the probe, whose client completed and whose result JSON parsed
\* ends with one database container and one client container launched, that
\* JSON parsed, and no failure reported; for a request of 1 CPU the database
\* ran on the indices [0, 1).
C12_CleanPassSucceeds ==
    [][\A p \in Procs :
          (pc[p] = "push" /\ pc'[p] # "push") =>
              /\ ~run_failed'[p]
              /\ Cardinality(LaunchedHandles(p, "db")) = 1
              /\ Cardinality(LaunchedHandles(p, "client")) = 1
              /\ Len(launched'[p]) = 2
              /\ results_dict'[p] = <<"results", streamId[p]>>
              /\ RequestedCpus(p) = [num |-> 1, den |-> 1] =>
                     db_cpuset_cpus[p] = <<0>>]_vars

\* C15 (as claimed): whatever the metrics push step raises, the pass is not
\* turned into a failed one: it leaves the step as it entered it.
C15_PushErrorOnlyWarns ==
    [][\A p \in Procs :
          pc[p] = "push" => run_failed'[p] = run_failed[p]]_vars

\* the entry in hand declares an artifact it carries no payload for
DeclaresMissingArtifact(p) ==
    \E i \in 1..Len(build_artifacts[p]) : build_artifacts[p][i] \notin DOMAIN testDetails[p]

\* C13: a pass that reaches the artifacts of an entry that declares a name
\* without payload is aborted with nothing launched; its tear-down then
\* removes the temp directory, the process stays alive and moves to the next
\* topology.
C13_MissingArtifactAborts ==
    [][\A p \in Procs :
          /\ (pc[p] = "materialize" /\ DeclaresMissingArtifact(p) /\ pc'[p] # pc[p]) =>
                 /\ pc'[p] = "teardown"
                 /\ run_failed'[p]
                 /\ launched'[p] = <<>>
                 /\ docker' = docker
          /\ (/\ pc[p] = "teardown" /\ DeclaresMissingArtifact(p)
              /\ temporary_dir[p] \in DOMAIN fs
              /\ pc'[p] # pc[p]) =>
                 /\ pc'[p] = "topo"
                 /\ topo_idx'[p] = topo_idx[p] + 1
                 /\ temporary_dir[p] \notin DOMAIN fs'
                 /\ launched'[p] = <<>>
                 /\ exit_status'[p] = <<>>]_vars

\* the pass of a known topology was aborted on the missing payload, torn
\* down, and the loop stands at the next topology
C13_Witness ==
    /\ pc[1] = "topo"
    /\ topo_idx[1] > 1
    /\ files[file_idx[1]][topo_idx[1] - 1] \in DOMAIN topologies_map
    /\ DeclaresMissingArtifact(1)
    /\ run_failed[1]
    /\ launched[1] = <<>>
    /\ temporary_dir[1] # Unbound
    /\ temporary_dir[1] \notin DOMAIN fs

\* the owner's execute bit (octal 0100) of a file mode
OwnerExecutable(mode) == (mode \div 64) % 2 = 1

\* C14: from the launch of the database container on, every artifact the
\* entry names is a file of the pass's temp directory whose content is the
\* entry's payload for that name and whose mode has the execute bit.
C14_ArtifactsBeforeDb ==
    \A p \in Procs :
        pc[p] \in AllocatedSteps =>
            /\ temporary_dir[p] \in DOMAIN fs
            /\ \A i \in 1..Len(build_artifacts[p]) :
                   LET name == build_artifacts[p][i]
                       dir == fs[temporary_dir[p]]
                   IN  /\ name \in DOMAIN dir
                       /\ dir[name].content = testDetails[p][name]
                       /\ OwnerExecutable(dir[name].mode)

\* the database container runs on a temp directory that holds both
\* artifacts of a two-artifact entry
C14_Witness ==
    /\ pc[1] = "probe"
    /\ \E c \in docker : c.owner = 1 /\ c.kind = "db"
    /\ Len(build_artifacts[1]) = 2
    /\ DOMAIN fs[temporary_dir[1]] = SeqToSet(build_artifacts[1])

\* C16 (as claimed): once an entry was delivered, every read is issued with
\* the id of the entry delivered last as its cursor.
C16_ReadsFromDeliveredId ==
    \A p \in Procs :
        (pc[p] = "read" /\ testDetails[p] # Unbound) =>
            ReadCursor(p) = <<"id", streamId[p]>>

\* C16 (amended): a delivery sets the cursor to the delivered id and nothing
\* changes it while the entry is handled; the read that follows is issued
\* with that id, and when it returns no entry the cursor becomes ">" and the
\* reads are issued with ">" until the next delivery.
C16_CursorIsDeliveredIdOrNew ==
    \A p \in Procs :
        testDetails[p] # Unbound =>
            IF pc[p] = "read"
            THEN previous_id[p] \in {<<"id", streamId[p]>>, GT}
            ELSE previous_id[p] = <<"id", streamId[p]>>

\* an entry was delivered and handled, the read from its id came back empty
\* and the next read waits for new entries
C16_Witness ==
    /\ pc[1] = "read"
    /\ testDetails[1] # Unbound
    /\ previous_id[1] = GT

\* the entries delivered to the consumer of process p and never acknowledged
PendingOf(p) == {e[2] : e \in {x \in pel : x[1] = ConsumerName(p)}}

\* C17 (as claimed): every entry delivered to a coordinator started with ">"
\* is one the group was never delivered before; every entry delivered to
\* a coordinator started with the id S has an id above S and above the ids
\* delivered to it earlier, and is the least pending entry of its consumer
\* above the cursor as long as there is one.
C17_StartPositionHonoured ==
    [][\A p \in Procs :
          (pc[p] = "read" /\ pc'[p] = "decode") =>
              LET id == streamId'[p]
                  start == args[p].consumer_start_id
              IN  IF start = GT
                  THEN id > last_delivered_id /\ id \notin {e[2] : e \in pel}
                  ELSE /\ id > start[2]
                       /\ testDetails[p] # Unbound => id > streamId[p]
                       /\ \A older \in PendingOf(p) :
                              (older > start[2] /\ older < id) =>
                                  testDetails[p] # Unbound /\ older <= streamId[p]]_vars

\* the positions of the items of a dict whose name is none of the fixed ones
KeptItems(items) ==
    {i \in 1..Len(items) : items[i][1] \notin {"port", "protected-mode", "dir"}}

\* C18: the returned list is the binary, "--protected-mode no",
\* "--port <port>" and "--dir <dbdir>", then "--<name> <value>" for each
\* parameter not named port, protected-mode or dir, in iteration order; each
\* of the three fixed flags occurs once; without parameters the list is the
\* fixed part.
C18_ServerArgs ==
    command # Unbound =>
        LET a == call_args
            cp == a.configuration_parameters
            items == IF cp = None THEN <<>> ELSE cp.items
            kept == KeptItems(items)
        IN  /\ Len(command) = 7 + 2 * Cardinality(kept)
            /\ command[1] = a.binary
            /\ command[2] = <<"--", "protected-mode">> /\ command[3] = <<"no">>
            /\ command[4] = <<"--", "port">>
            /\ a.port = 6379 => command[5] = <<"6", "3", "7", "9">>
            /\ a.port = 6380 => command[5] = <<"6", "3", "8", "0">>
            /\ a.port = 7 => command[5] = <<"7">>
            /\ command[6] = <<"--", "dir">> /\ command[7] = a.dbdir
            /\ \A i \in kept :
                   LET k == Cardinality({j \in kept : j <= i})
                   IN  /\ command[7 + 2 * k - 1] = <<"--", items[i][1]>>
                       /\ command[7 + 2 * k] = items[i][2]
            /\ \A n \in {"port", "protected-mode", "dir"} :
                   Cardinality({i \in 1..Len(command) : command[i] = <<"--", n>>}) = 1
            /\ kept = {} => Len(command) = 7

\* a call whose dict named "dir" first and another parameter after it
\* returned the fixed part and that one pair
C18_Witness ==
    /\ command # Unbound
    /\ call_args.configuration_parameters # None
    /\ Len(call_args.configuration_parameters.items) = 2
    /\ call_args.configuration_parameters.items[1][1] = "dir"
    /\ call_args.configuration_parameters.items[2][1] = "save"
    /\ Len(command) = 9

\* C19: a pass that launched a client container launched its database
\* container first and got an answer from the probe in between; after a
\* failed probe the pass has launched no client, is logged as failed and is
\* past its run steps.
C19_ClientAfterProbe ==
    \A p \in Procs :
        /\ LaunchedHandles(p, "client") # {} =>
               /\ launched[p][1].kind = "db"
               /\ launched[p][Len(launched[p])].kind = "client"
               /\ probe_result[p] = "pong"
        /\ pc[p] \in {"run_client", "client_wait"} =>
               /\ probe_result[p] = "pong"
               /\ \E c \in docker : c.owner = p /\ c.kind = "db"
        /\ probe_result[p] = "failed" =>
               /\ LaunchedHandles(p, "client") = {}
               /\ run_failed[p]
               /\ pc[p] \notin {"probe", "run_client", "client_wait", "reconcile", "push"}

\* the probe of a launched database failed and the pass stands at its
\* tear-down with the database as its only launch
C19_Witness ==
    /\ pc[1] = "teardown"
    /\ probe_result[1] = "failed"
    /\ Len(launched[1]) = 1
    /\ launched[1][1].kind = "db"

\* the database containers process p launched that are running
RunningDbs(p) == {c \in docker : c.owner = p /\ c.kind = "db"}

\* C20: a process has at most one database container running, and none
\* between passes nor in a pass that has not launched its own yet: the
\* database of a pass is launched after the previous one was stopped.
C20_OneDbAtATime ==
    \A p \in Procs :
        /\ Cardinality(RunningDbs(p)) <= 1
        /\ (BetweenPasses(p) \/ pc[p] \in {"materialize", "launch_db"}) =>
               RunningDbs(p) = {}
        /\ RunningDbs(p) # {} =>
               /\ pc[p] \in PassSteps
               /\ LaunchedHandles(p, "db") = {c.handle : c \in RunningDbs(p)}

\* the database of a later pass of a file runs after the tear-down of an
\* earlier pass stopped that pass's database
C20_Witness ==
    /\ pc[1] = "probe"
    /\ Cardinality(RunningDbs(1)) = 1
    /\ Len(redis_containers[1]) = 2
    /\ redis_containers[1][1] \in SeqToSet(stop_calls[1])
    /\ \A c \in RunningDbs(1) : c.handle = redis_containers[1][2]

\* C21 (as claimed): the handles a tear-down calls stop() on are those of the
\* database containers launched in the same pass, and no handle is passed
\* to stop() in the tear-down of more than one pass.
C21_StopsOnlyOwnPass ==
    \A p \in Procs :
        /\ pc[p] = "teardown" => SeqToSet(StopList(p)) = LaunchedHandles(p, "db")
        /\ \A i \in 1..Len(stop_calls[p]) : \A j \in 1..Len(stop_calls[p]) :
               stop_calls[p][i] = stop_calls[p][j] => i = j

\* the pass in its tear-down failed before mkdtemp: the directory it would
\* have created is not on disk
FailedBeforeTempDir(p) ==
    pc[p] = "teardown" /\ temporary_dir[p] \notin DOMAIN fs

\* C22 (as claimed): the tear-down of a pass that failed before its temp
\* directory was created ends without raising, the process alive at the
\* next topology, and the path it hands to rmtree is not one an earlier pass
\* left behind.
C22_EarlyFailureTearDown ==
    [][\A p \in Procs :
          (FailedBeforeTempDir(p) /\ pc'[p] # pc[p]) =>
              /\ pc'[p] = "topo"
              /\ exit_status'[p] = <<>>
              /\ temporary_dir[p] = Unbound]_vars

====
